---- MODULE Spec2Model ----
(***************************************************************************)
(* A model of pyqtconfig's ConfigManager (src/pyqtconfig/config.py): the   *)
(* key/value store with defaults and event hooks, the handler registry     *)
(* binding a QSpinBox to a key, and the propagation of changes between     *)
(* the store and the widget.                                               *)
(*                                                                         *)
(* Python dicts are functions whose DOMAIN is the set of keys present.     *)
(* Every operation is computed on a record m holding the manager's fields, *)
(* the widgets' state and the log of what the call did, in the order it    *)
(* did it: "store" (a _set), "setter" (a widget setter call) and           *)
(* "updated" (an emission of the updated signal).                          *)
(*                                                                         *)
(* The widget is Qt's QSpinBox as the hooks use it: value() is an integer  *)
(* of [0, Maximum], setValue(v) brings v into that range and emits         *)
(* valueChanged when the value held changes, which runs the connected      *)
(* handler_callback synchronously. Calls are type-correct: the values set  *)
(* on a key that has a handler are integers (setValue(None) raises).       *)
(*                                                                         *)
(* Around the store: the registry of widget types that have hooks          *)
(* (_get_hook, add_hooks), the JSON file of save and load, the XML tree of *)
(* getXMLConfig and setXMLConfig with values written with their Python     *)
(* type, the warning of QSettingsManager, the columns of                   *)
(* build_config_layout, and the ConfigDialog with its own manager and      *)
(* spin boxes. Each has a specification of its own (SpecHooks, SpecJson,   *)
(* SpecXML, SpecSettings, SpecLayout, SpecDialog) beside those of the      *)
(* store (Spec, SpecDefaults, SpecMany, SpecHandlers). SpecMapper applies  *)
(* the mappers add_handler builds from a dict or a list of pairs, and      *)
(* SpecThreads interleaves the steps of set called by two threads.         *)
(***************************************************************************)
EXTENDS Integers, Sequences, FiniteSets, TLC

\* ---- bounds -------------------------------------------------------------
\* the maximum the host gave the spin boxes (QSpinBox.setMaximum); the
\* minimum is Qt's default, 0
Maximum == 1

\* the configuration keys, and the spin boxes the host makes
Keys == {"a", "b"}
Widgets == {"w1"}

\* the spin boxes of a host that makes a second one
SpinBoxes == {"w1", "w2"}

\* integer configuration values: those a spin box can show, and one above
Vals == 0 .. (Maximum + 1)
WidgetVals == 0 .. Maximum

\* ---- program constants ---------------------------------------------------
RECALCULATE_ALL == 1
RECALCULATE_VIEW == 2

\* Python's None (never a member of Vals)
None == -1

EventHooks == {RECALCULATE_ALL, RECALCULATE_VIEW}

\* ---- the maps handed to build_dict_mapper and build_tuple_mapper -------------
MaxPairs == 2

\* Python values written with their type, as the values of the XML tables are
PyStr(x) == [type |-> "str", v |-> x]
PyInt(x) == [type |-> "int", v |-> x]
PyTuple(x, y) == [type |-> "tuple", v |-> <<x, y>>]

\* the display values and the stored values of the maps, and the tuples
\* (display value, stored value)
DisplayValues == {PyStr("A"), PyStr("B")}
StoredValues == {PyInt(0), PyInt(1)}
Pairs == {PyTuple(k, v) : k \in DisplayValues, v \in StoredValues}

\* the lists of tuples the host passes as mapper
MapLists == UNION {[1 .. n -> Pairs] : n \in 0 .. MaxPairs}

\* the values the map functions are called with: display values, stored
\* values, values that are neither, and tuples
MapInputs == DisplayValues \cup StoredValues \cup {PyStr("Z"), PyInt(2)} \cup Pairs

\* ---- the managers handed to build_config_layout ------------------------------
MaxItems == 4
MaxCols == 3

\* what matters of a key of defaults: its metadata says prefer_hidden, or it
\* has a handler, or its value is an int, for which get_default_handler has a
\* widget, or a list, for which it has none
ItemKinds == {"hidden", "handler", "int", "list"}

\* the keys of defaults, in the dict's order, each by its kind
LayoutItems == UNION {[1 .. n -> ItemKinds] : n \in 0 .. MaxItems}

\* the names an application and its organization are given
AppNames == {"", "python", "PyQtConfig", "TestPyQtConfig"}

\* HOOKS: the widget types that have hooks when the module is loaded (two of
\* the thirteen), in the dict's order
HOOKS == <<"QSpinBox", "QLineEdit">>

\* the types of the objects handed to _get_hook: Qt's and the host's
WidgetTypes == {"QWidget", "QSpinBox", "QLineEdit", "MyLineEdit", "MyOtherEdit",
                "MyTestClass"}

\* the base class of each type
Base == [t \in WidgetTypes |->
            CASE t = "QSpinBox" -> "QWidget"
              [] t = "QLineEdit" -> "QWidget"
              [] t = "MyLineEdit" -> "QLineEdit"
              [] t = "MyOtherEdit" -> "MyLineEdit"
              [] OTHER -> "object"]

\* ---- the values getXMLConfig and setXMLConfig convert ------------------------
\* a value is written with the name of its Python type: [type, v]
MaxLen == 2

Atoms ==
    {[type |-> "str", v |-> x] : x \in {"", "1"}}
        \cup {[type |-> "int", v |-> x] : x \in Vals}
        \cup {[type |-> "bool", v |-> x] : x \in BOOLEAN}
        \cup {[type |-> "NoneType", v |-> None]}

\* the lists and tuples of up to MaxLen items of S, and the dicts of up to one;
\* the v of a dict is the sequence of its items
Containers(S) ==
    {[type |-> t, v |-> x] :
        t \in {"list", "tuple"}, x \in UNION {[1 .. n -> S] : n \in 0 .. MaxLen}}
        \cup {[type |-> "dict", v |-> x] : x \in {<<>>} \cup {<<<<"k", y>>>> : y \in S}}

\* the containers of one item that is a container itself
Nested(S) ==
    {[type |-> t, v |-> <<y>>] : t \in {"list", "tuple"}, y \in S}
        \cup {[type |-> "dict", v |-> <<<<"k", y>>>>] : y \in S}

XMLValues == Atoms \cup Containers(Atoms) \cup Nested(Containers(Atoms))

VARIABLES
    threads,      \* thread -> its call of set: position, arguments, locals, what it did
    config,       \* self.config: key -> value
    defaults,     \* self.defaults: key -> value
    eventhooks,   \* self.eventhooks: key -> RECALCULATE_*
    handlers,     \* self.handlers: key -> widget
    connections,  \* widget -> key of the handler_callback connected to its change signal
    widgetValue,  \* widget -> QSpinBox.value()
    hooks,        \* self.hooks: the widget types that have hooks, in the dict's order
    file,         \* the JSON file at self.path: whether it exists, and key -> text
    app,          \* QApplication.instance(): its applicationName and organizationName
    settings,     \* the QSettingsManager: whether one was made, its warn_no_app_name
    dialog,       \* the ConfigDialog: whether one is open, its manager and widgets
    op,           \* the operation that ran last
    args,         \* its arguments
    ret,          \* what it returned
    log           \* what it did, in order

vars == <<config, defaults, eventhooks, handlers, connections, widgetValue,
          hooks, file, app, settings, dialog, threads, op, args, ret, log>>

\* ---- helpers --------------------------------------------------------------
Ev(e, k, v) == [e |-> e, k |-> k, v |-> v]

Updated(l) == SelectSeq(l, LAMBDA x : x.e = "updated")
Stores(l) == SelectSeq(l, LAMBDA x : x.e = "store")
Setters(l) == SelectSeq(l, LAMBDA x : x.e = "setter")

\* the dict with key bound to value
DictSet(d, key, value) == (key :> value) @@ d

\* the dict without key
DictDel(d, key) == [k \in DOMAIN d \ {key} |-> d[k]]

\* no ConfigDialog is open
NoDialog == [open |-> FALSE, config |-> <<>>, defaults |-> <<>>, eventhooks |-> <<>>,
             handlers |-> <<>>, connections |-> <<>>, widgetValue |-> <<>>,
             log |-> <<>>]

\* the threads of the host that call set
Threads == {"t1", "t2"}

\* a thread that has not called set. Of a call: where it is, its arguments,
\* its local old, what it returned, what it did, and the value the store held
\* for the key when the call began
NotCalled == [pc |-> "idle", key |-> "", value |-> None, stored |-> None,
              old |-> None, ret |-> FALSE, log |-> <<>>]

NoThreads == [t \in Threads |-> NotCalled]

\* the manager, the widgets and the log, as one record
Machine == [config |-> config, defaults |-> defaults, eventhooks |-> eventhooks,
            handlers |-> handlers, connections |-> connections,
            widgetValue |-> widgetValue, log |-> <<>>]

\* ---- ConfigManager ---------------------------------------------------------
_get(m, key) == IF key \in DOMAIN m.config THEN m.config[key] ELSE None

_get_default(m, key) == IF key \in DOMAIN m.defaults THEN m.defaults[key] ELSE None

\* get without the test for a stored None
get_stored_none(m, key) ==
    IF key \in DOMAIN m.config THEN m.config[key] ELSE _get_default(m, key)

get(m, key) ==
    LET v == _get(m, key)
    IN  IF v # None THEN v ELSE _get_default(m, key)

_set(m, key, value) ==
    [m EXCEPT !.config = DictSet(@, key, value),
              !.log = Append(@, Ev("store", key, value))]

emit(m, hook) == [m EXCEPT !.log = Append(@, Ev("updated", "", hook))]

\* ---- QSpinBox hooks ---------------------------------------------------------
getter(m, w) == m.widgetValue[w]

RECURSIVE set(_, _, _, _, _)

\* handler_callback = lambda x=None: self.set(key, handler.getter(), trigger_handler=False)
handler_callback(m, key, w) == set(m, key, getter(m, w), FALSE, TRUE).m

\* the widget's change signal: runs the callback connected to it, if any
valueChanged(m, w) ==
    IF w \in DOMAIN m.connections
    THEN handler_callback(m, m.connections[w], w)
    ELSE m

\* QSpinBox.setValue: the value is brought into [0, Maximum]; valueChanged is
\* emitted when the value the box holds changes
bound(v) == IF v > Maximum THEN Maximum ELSE IF v < 0 THEN 0 ELSE v

setValue(m, w, v) ==
    IF bound(v) = m.widgetValue[w]
    THEN m
    ELSE valueChanged([m EXCEPT !.widgetValue[w] = bound(v)], w)

setter(m, w, v) == setValue([m EXCEPT !.log = Append(@, Ev("setter", w, v))], w, v)

\* ---- ConfigManagerBase.set ---------------------------------------------------
\* set calling the setter of the handler whatever the widget shows
set_always_setter(m, key, value, trigger_handler, trigger_update) ==
    LET old == _get(m, key)
    IN  IF old # None /\ old = value
        THEN [m |-> m, ret |-> FALSE]
        ELSE LET m1 == _set(m, key, value)
                 m2 == IF trigger_handler /\ key \in DOMAIN m1.handlers
                       THEN setter(m1, m1.handlers[key], _get(m1, key))
                       ELSE m1
                 m3 == IF trigger_update
                       THEN emit(m2, IF key \in DOMAIN m2.eventhooks
                                     THEN m2.eventhooks[key]
                                     ELSE RECALCULATE_ALL)
                       ELSE m2
             IN  [m |-> m3, ret |-> TRUE]

\* set returning early on an equal value without the test for None
set_equal_none(m, key, value, trigger_handler, trigger_update) ==
    LET old == _get(m, key)
    IN  IF old = value
        THEN [m |-> m, ret |-> FALSE]
        ELSE LET m1 == _set(m, key, value)
                 m2 == IF /\ trigger_handler
                          /\ key \in DOMAIN m1.handlers
                          /\ getter(m1, m1.handlers[key]) # _get(m1, key)
                       THEN setter(m1, m1.handlers[key], _get(m1, key))
                       ELSE m1
                 m3 == IF trigger_update
                       THEN emit(m2, IF key \in DOMAIN m2.eventhooks
                                     THEN m2.eventhooks[key]
                                     ELSE RECALCULATE_ALL)
                       ELSE m2
             IN  [m |-> m3, ret |-> TRUE]

set(m, key, value, trigger_handler, trigger_update) ==
    LET old == _get(m, key)
    IN  IF old # None /\ old = value
        THEN [m |-> m, ret |-> FALSE]
        ELSE LET m1 == _set(m, key, value)
                 m2 == IF /\ trigger_handler
                          /\ key \in DOMAIN m1.handlers
                          /\ getter(m1, m1.handlers[key]) # _get(m1, key)
                       THEN setter(m1, m1.handlers[key], _get(m1, key))
                       ELSE m1
                 m3 == IF trigger_update
                       THEN emit(m2, IF key \in DOMAIN m2.eventhooks
                                     THEN m2.eventhooks[key]
                                     ELSE RECALCULATE_ALL)
                       ELSE m2
             IN  [m |-> m3, ret |-> TRUE]

\* ---- set_default, set_defaults -------------------------------------------------
set_default(m, key, value, eventhook) ==
    emit([m EXCEPT !.defaults = DictSet(@, key, value),
                   !.eventhooks = DictSet(@, key, eventhook)],
         eventhook)

\* for key, value in keyvalues.items(): ...; keyvalues is the sequence of the
\* dict's items, in the dict's order
RECURSIVE set_defaults_loop(_, _, _)
set_defaults_loop(m, keyvalues, eventhook) ==
    IF keyvalues = <<>>
    THEN m
    ELSE set_defaults_loop(
             [m EXCEPT !.defaults = DictSet(@, keyvalues[1][1], keyvalues[1][2]),
                       !.eventhooks = DictSet(@, keyvalues[1][1], eventhook)],
             Tail(keyvalues), eventhook)

\* set_defaults emitting inside the loop, once for every pair
RECURSIVE set_defaults_each(_, _, _)
set_defaults_each(m, keyvalues, eventhook) ==
    IF keyvalues = <<>>
    THEN m
    ELSE set_defaults_each(
             emit([m EXCEPT !.defaults = DictSet(@, keyvalues[1][1], keyvalues[1][2]),
                            !.eventhooks = DictSet(@, keyvalues[1][1], eventhook)],
                  eventhook),
             Tail(keyvalues), eventhook)

set_defaults(m, keyvalues, eventhook) ==
    emit(set_defaults_loop(m, keyvalues, eventhook), eventhook)

\* ---- set_many, replace -------------------------------------------------------
RECURSIVE set_many_loop(_, _, _)
set_many_loop(m, keyvalues, has_updated) ==
    IF keyvalues = <<>>
    THEN [m |-> m, ret |-> has_updated]
    ELSE LET r == set(m, keyvalues[1][1], keyvalues[1][2], TRUE, FALSE)
         IN  set_many_loop(r.m, Tail(keyvalues), has_updated \/ r.ret)

set_many(m, keyvalues, trigger_update) ==
    LET r == set_many_loop(m, keyvalues, FALSE)
    IN  [m |-> IF r.ret /\ trigger_update THEN emit(r.m, RECALCULATE_ALL) ELSE r.m,
         ret |-> r.ret]

replace(m, keyvalues) == set_many([m EXCEPT !.config = <<>>], keyvalues, TRUE).m

\* ---- add_handler ---------------------------------------------------------------
\* add_handler registering the widget whether or not the key has a handler
add_handler_again(m, key, handler, default) ==
    LET m1 == [m EXCEPT !.handlers = DictSet(@, key, handler),
                        !.connections = DictSet(@, handler, key)]
        m2 == IF key \notin DOMAIN m1.defaults
              THEN IF default = None
                   THEN set_default(m1, key, getter(m1, handler), RECALCULATE_ALL)
                   ELSE set_default(m1, key, default, RECALCULATE_ALL)
              ELSE m1
    IN  IF _get(m2, key) # None
        THEN setter(m2, handler, _get(m2, key))
        ELSE IF key \in DOMAIN m2.defaults
             THEN setter(m2, handler, m2.defaults[key])
             ELSE m2

\* add_handler leaving the widget alone when the key has no stored value
add_handler_stored_only(m, key, handler, default) ==
    IF key \in DOMAIN m.handlers
    THEN m
    ELSE LET m1 == [m EXCEPT !.handlers = DictSet(@, key, handler),
                             !.connections = DictSet(@, handler, key)]
             m2 == IF key \notin DOMAIN m1.defaults
                   THEN IF default = None
                        THEN set_default(m1, key, getter(m1, handler), RECALCULATE_ALL)
                        ELSE set_default(m1, key, default, RECALCULATE_ALL)
                   ELSE m1
         IN  IF _get(m2, key) # None
             THEN setter(m2, handler, _get(m2, key))
             ELSE m2

\* the handler is a QSpinBox and the mapper the default pair of identities
add_handler(m, key, handler, default) ==
    IF key \in DOMAIN m.handlers
    THEN m
    ELSE LET m1 == [m EXCEPT !.handlers = DictSet(@, key, handler),
                             !.connections = DictSet(@, handler, key)]
             m2 == IF key \notin DOMAIN m1.defaults
                   THEN IF default = None
                        THEN set_default(m1, key, getter(m1, handler), RECALCULATE_ALL)
                        ELSE set_default(m1, key, default, RECALCULATE_ALL)
                   ELSE m1
         IN  IF _get(m2, key) # None
             THEN setter(m2, handler, _get(m2, key))
             ELSE IF key \in DOMAIN m2.defaults
                  THEN setter(m2, handler, m2.defaults[key])
                  ELSE m2

\* ---- ConfigManagerBase.remove_handler ----------------------------------------
\* the callback of the key's handler is disconnected and the handler forgotten
remove_handler(m, key) ==
    IF key \in DOMAIN m.handlers
    THEN [m EXCEPT !.connections = DictDel(@, m.handlers[key]),
                   !.handlers = DictDel(@, key)]
    ELSE m

\* ---- ConfigManager.reset -----------------------------------------------------
\* reset leaving the defaults in place
reset_keep_defaults(m) ==
    [m EXCEPT !.config = <<>>, !.handlers = <<>>, !.eventhooks = <<>>]

\* the dicts of the manager are replaced by empty ones; the widgets and what
\* is connected to their signals are not touched
reset(m) ==
    [m EXCEPT !.config = <<>>, !.handlers = <<>>, !.defaults = <<>>,
              !.eventhooks = <<>>]

\* ---- ConfigManagerBase._get_hook, add_hooks ----------------------------------
RECURSIVE isinstance(_, _)
\* an object of type t is an instance of cls
isinstance(t, cls) ==
    \/ t = cls
    \/ t \in WidgetTypes /\ isinstance(Base[t], cls)

\* fst: the first of the keys of hs, in the dict's order, that is one of those,
\* the keys the generator lets through, and None, written "None" among the
\* names of types, when there is none
fst(hs, those) ==
    LET found == {i \in DOMAIN hs : hs[i] \in those}
    IN  IF found = {}
        THEN "None"
        ELSE hs[CHOOSE i \in found : \A j \in found : i <= j]

\* _get_hook looking for a type of which the handler is an instance only
_get_hook_isinstance(hs, handler) ==
    LET cls == fst(hs, {x \in WidgetTypes : isinstance(handler, x)})
    IN  IF cls = "None" THEN "TypeError" ELSE cls

\* handler stands for the object by its type
_get_hook(hs, handler) ==
    LET exact == fst(hs, {x \in WidgetTypes : x = handler})
        cls == IF exact = "None"
               THEN fst(hs, {x \in WidgetTypes : isinstance(handler, x)})
               ELSE exact
    IN  IF cls = "None" THEN "TypeError" ELSE cls

\* self.hooks[key] = hooks: a new key goes to the end of the dict
add_hooks(hs, key) ==
    IF \E i \in DOMAIN hs : hs[i] = key THEN hs ELSE Append(hs, key)

\* ---- as_dict, save, load -----------------------------------------------------
\* the JSON text of a value, and the value of a JSON text
json_dump(v) == IF v = None THEN "null" ELSE ToString(v)
json_load(t) == IF t = "null" THEN None ELSE CHOOSE v \in Vals : ToString(v) = t

\* as_dict: the value get returns for each key of defaults
as_dict(m) == [k \in DOMAIN m.defaults |-> get(m, k)]

\* save: the file holds as_dict as JSON
save(m) == [exists |-> TRUE,
            items |-> [k \in DOMAIN m.defaults |-> json_dump(as_dict(m)[k])]]

\* load: set_many of the items read from the file, keyvalues, in its order
load(m, keyvalues) == set_many(m, keyvalues, TRUE).m

\* ConfigManager(defaults, filename): the dicts are empty, the defaults are
\* the ones passed and the file, when there is one, is loaded
ConfigManager(m, d, keyvalues) ==
    load([reset(m) EXCEPT !.defaults = d], keyvalues)

\* ---- CONVERT_TYPE_TO_XML, CONVERT_TYPE_FROM_XML -------------------------------
\* str(s)
str(s) ==
    CASE s.type = "str" -> s.v
      [] s.type = "int" -> ToString(s.v)
      [] s.type = "bool" -> IF s.v THEN "True" ELSE "False"
      [] s.type = "NoneType" -> "None"

\* int(x.text) and x.text.lower()
int(text) == CHOOSE i \in Vals : ToString(i) = text
lower(text) ==
    CASE text = "True" -> "true"
      [] text = "False" -> "false"
      [] OTHER -> text

RECURSIVE CONVERT_TYPE_TO_XML(_, _)
\* the element co with the value written into it: as text, or as one
\* sub-element, with its type and key, for each item
CONVERT_TYPE_TO_XML(co, s) ==
    CASE s.type \in {"list", "tuple"} ->
             [co EXCEPT !.children =
                 [i \in DOMAIN s.v |->
                     CONVERT_TYPE_TO_XML([tag |-> "ListItem", type |-> s.v[i].type,
                                          key |-> "", text |-> <<>>, children |-> <<>>],
                                         s.v[i])]]
      [] s.type = "dict" ->
             [co EXCEPT !.children =
                 [i \in DOMAIN s.v |->
                     CONVERT_TYPE_TO_XML([tag |-> "DictItem", type |-> s.v[i][2].type,
                                          key |-> s.v[i][1], text |-> <<>>,
                                          children |-> <<>>],
                                         s.v[i][2])]]
      [] OTHER -> [co EXCEPT !.text = <<str(s)>>]

\* x.text as a string: str(None) when the element has no text
Text(x) == IF x.text = <<>> THEN "None" ELSE x.text[1]

\* vs.findall(tag)
findall(vs, tags) == SelectSeq(vs.children, LAMBDA x : x.tag \in tags)

RECURSIVE CONVERT_TYPE_FROM_XML(_)
\* the value read from the element x, by the type x names; the items of a
\* list and of a tuple are both read into a list
CONVERT_TYPE_FROM_XML(x) ==
    CASE x.type \in {"str", "unicode"} -> [type |-> "str", v |-> Text(x)]
      [] x.type = "int" -> [type |-> "int", v |-> int(Text(x))]
      [] x.type = "bool" -> [type |-> "bool", v |-> lower(Text(x)) = "true"]
      [] x.type \in {"list", "tuple"} ->
             LET vlist == findall(x, {"ListItem", "ConfigListItem"})
             IN  [type |-> "list",
                  v |-> [i \in DOMAIN vlist |-> CONVERT_TYPE_FROM_XML(vlist[i])]]
      [] x.type = "dict" ->
             LET vlist == findall(x, {"DictItem"})
             IN  [type |-> "dict",
                  v |-> [i \in DOMAIN vlist |->
                            <<vlist[i].key, CONVERT_TYPE_FROM_XML(vlist[i])>>]]
      [] x.type = "NoneType" -> [type |-> "NoneType", v |-> None]

\* getXMLConfig: a ConfigSetting for each item of config, in the order items
getXMLConfig(m, items) ==
    [i \in DOMAIN items |->
        CONVERT_TYPE_TO_XML([tag |-> "ConfigSetting", type |-> m.config[items[i]].type,
                             key |-> items[i], text |-> <<>>, children |-> <<>>],
                            m.config[items[i]])]

\* setXMLConfig: the values read from the ConfigSettings of root are set
setXMLConfig(m, root) ==
    set_many(m, [i \in DOMAIN root |-> <<root[i].key, CONVERT_TYPE_FROM_XML(root[i])>>],
             FALSE).m

\* ---- build_dict_mapper, build_tuple_mapper ------------------------------------
\* the last place of the list of tuples where the n-th of the tuple is x
LastIndex(pairs, n, x) ==
    LET found == {i \in DOMAIN pairs : pairs[i].v[n] = x}
    IN  CHOOSE i \in found : \A j \in found : j <= i

\* dict(mlist): each display value with the stored value of its last tuple
dict(mlist) ==
    [k \in {mlist[i].v[1] : i \in DOMAIN mlist} |->
        mlist[LastIndex(mlist, 1, k)].v[2]]

\* mdict.items(): the dict's items as tuples, in an order
dict_items(mdict, keys) == [i \in DOMAIN keys |-> PyTuple(keys[i], mdict[keys[i]])]

\* rdict = {v: k for k, v in ...}: each stored value with the display value of
\* its last tuple
rdict(pairs) ==
    [v \in {pairs[i].v[2] : i \in DOMAIN pairs} |->
        pairs[LastIndex(pairs, 2, v)].v[1]]

\* the pair of lambdas of build_dict_mapper, each as the function it computes
\* on MapInputs; keys is the order of mdict
build_dict_mapper(mdict, keys) ==
    [forward |-> [x \in MapInputs |-> IF x \in DOMAIN mdict THEN mdict[x] ELSE x],
     reverse |-> [x \in MapInputs |->
                     IF x \in DOMAIN rdict(dict_items(mdict, keys))
                     THEN rdict(dict_items(mdict, keys))[x]
                     ELSE x]]

\* mlist[x] for x a member of mlist, a tuple: a list is not indexed by a tuple
TypeError == [type |-> "TypeError", v |-> "list indices must be integers or slices, not tuple"]

\* the pair of lambdas of build_tuple_mapper: the forward one looks x up in the
\* list, of which only the tuples are members
build_tuple_mapper(mlist) ==
    [forward |-> [x \in MapInputs |->
                     IF \E i \in DOMAIN mlist : mlist[i] = x THEN TypeError ELSE x],
     reverse |-> [x \in MapInputs |->
                     IF x \in DOMAIN rdict(mlist) THEN rdict(mlist)[x] ELSE x]]

\* ---- QSettingsManager.reset --------------------------------------------------
\* reset warning only when both names are empty
QSettingsManager_reset_both(warn_no_app_name, a) ==
    IF warn_no_app_name /\ a.applicationName = "" /\ a.organizationName = ""
    THEN <<Ev("warning", "", "")>>
    ELSE <<>>

\* the warnings reset emits; the dicts it empties are those of the settings
\* manager
QSettingsManager_reset(warn_no_app_name, a) ==
    IF warn_no_app_name /\ (a.applicationName = "" \/ a.organizationName = "")
    THEN <<Ev("warning", "", "")>>
    ELSE <<>>

\* ---- build_config_layout -----------------------------------------------------
\* get_visible_keys: the keys, here their places in defaults, not hidden
get_visible_keys(items) ==
    SelectSeq([i \in DOMAIN items |-> i], LAMBDA i : items[i] # "hidden")

\* math.ceil(a / b)
ceil(a, b) == (a + b - 1) \div b

\* the column cut where the fill of an equal chunk per column would cut it
f_index_chunks(i, num_items, cols) ==
    LET js == {j \in 0 .. cols - 1 : i + 1 <= (j + 1) * ceil(num_items, cols)}
    IN  IF js = {} THEN 0 ELSE CHOOSE j \in js : \A k \in js : j <= k

\* the column of the i-th visible key, i from 0: the first j with
\* (i+1) <= ceil((j+1)*num_items/cols), and 0 when there is none
f_index(i, num_items, cols) ==
    LET js == {j \in 0 .. cols - 1 : i + 1 <= ceil((j + 1) * num_items, cols)}
    IN  IF js = {} THEN 0 ELSE CHOOSE j \in js : \A k \in js : j <= k

\* whether the key gets a widget: it has a handler, or add_handler(key) makes
\* one for the type of its value
has_widget(kind) == kind \in {"handler", "int"}

\* the forms, one per column, each the sequence of the keys that have a row
build_config_layout(items, cols) ==
    LET visible == get_visible_keys(items)
        num_items == Len(visible)
    IN  [f \in 1 .. cols |->
            SelectSeq(visible,
                      LAMBDA key :
                          /\ has_widget(items[key])
                          /\ \E i \in 0 .. num_items - 1 :
                                 /\ visible[i + 1] = key
                                 /\ f_index(i, num_items, cols) = f - 1)]

\* ---- ConfigDialog ------------------------------------------------------------
\* the items of the dict d in the order keys
Items(d, keys) == [i \in DOMAIN keys |-> <<keys[i], d[keys[i]]>>]

\* the spin boxes get_default_handler makes for the keys, in their order
DialogWidgets == <<"w1", "w2">>

\* QSpinBox(): a new spin box shows 0
QSpinBox == 0

RECURSIVE add_handlers(_, _, _)
\* build_config_layout: config.add_handler(key) for each key from the i-th on,
\* the handler being the spin box get_default_handler makes for an int
add_handlers(m, keys, i) ==
    IF i > Len(keys)
    THEN m
    ELSE add_handlers(add_handler([m EXCEPT !.widgetValue =
                                      DictSet(@, DialogWidgets[i], QSpinBox)],
                                  keys[i], DialogWidgets[i], None),
                      keys, i + 1)

\* ConfigDialog(config): a manager made with a copy of the defaults, to which
\* as_dict of config is set, and a layout with a handler for each key; keys
\* is the order of config.defaults
ConfigDialog(m, keys) ==
    LET d0 == [NoDialog EXCEPT !.open = TRUE, !.defaults = m.defaults]
        d1 == set_many(d0, Items(as_dict(m), keys), TRUE).m
    IN  add_handlers(d1, keys, 1)

\* show_confirm_reset_dialog with the answer OK: set_many(self.config.defaults);
\* with the answer Cancel nothing is done
show_confirm_reset_dialog(d, keys, ok) ==
    IF ok THEN set_many(d, Items(d.defaults, keys), TRUE).m ELSE d

\* ---- the state after construction ----------------------------------------------
\* ConfigManager(): reset(), then self.defaults = {}; the host has made no
\* widget yet
Init ==
    /\ config = <<>>
    /\ defaults = <<>>
    /\ eventhooks = <<>>
    /\ handlers = <<>>
    /\ connections = <<>>
    /\ widgetValue = <<>>
    /\ hooks = HOOKS
    /\ file = [exists |-> FALSE, items |-> <<>>]
    /\ app = [applicationName |-> "", organizationName |-> ""]
    /\ settings = [constructed |-> FALSE, warn_no_app_name |-> TRUE]
    /\ dialog = NoDialog
    /\ threads = NoThreads
    /\ op = "init"
    /\ args = <<>>
    /\ ret = None
    /\ log = <<>>

\* the state the call leaves, with its arguments and what it returned
Result(a, m, r) ==
    /\ config' = m.config
    /\ defaults' = m.defaults
    /\ eventhooks' = m.eventhooks
    /\ handlers' = m.handlers
    /\ connections' = m.connections
    /\ widgetValue' = m.widgetValue
    /\ UNCHANGED <<hooks, file, app, settings, dialog, threads>>
    /\ args' = a
    /\ ret' = r
    /\ log' = m.log

\* config.get(key)
Get ==
    \E key \in Keys :
        /\ op' = "get"
        /\ Result([key |-> key], Machine, get(Machine, key))

\* config.set(key, value, trigger_update=trigger_update); a spin box takes
\* integers, so None is set only on keys that have no handler
Set ==
    \E key \in Keys, value \in Vals \cup {None}, tu \in BOOLEAN :
        /\ value = None => key \notin DOMAIN handlers
        /\ op' = "set"
        /\ LET r == set(Machine, key, value, TRUE, tu)
           IN  Result([key |-> key, value |-> value, trigger_update |-> tu],
                      r.m, r.ret)

\* the dicts the host passes: their items, in order, each key once
KeyValues ==
    {kv \in UNION {[1 .. n -> Keys \X Vals] : n \in 0 .. Cardinality(Keys)} :
        \A i \in DOMAIN kv, j \in DOMAIN kv : kv[i][1] = kv[j][1] => i = j}

\* config.set_many(keyvalues, trigger_update)
SetMany ==
    \E keyvalues \in KeyValues, tu \in BOOLEAN :
        /\ op' = "set_many"
        /\ LET r == set_many(Machine, keyvalues, tu)
           IN  Result([keyvalues |-> keyvalues, trigger_update |-> tu], r.m, r.ret)

\* config.replace(keyvalues)
Replace ==
    \E keyvalues \in KeyValues :
        /\ op' = "replace"
        /\ Result([keyvalues |-> keyvalues], replace(Machine, keyvalues), None)

\* config.set_default(key, value, eventhook)
SetDefault ==
    \E key \in Keys, value \in Vals, eventhook \in EventHooks :
        /\ op' = "set_default"
        /\ Result([key |-> key, value |-> value, eventhook |-> eventhook],
                  set_default(Machine, key, value, eventhook), None)

\* config.set_defaults(keyvalues, eventhook)
SetDefaults ==
    \E keyvalues \in KeyValues, eventhook \in EventHooks :
        /\ op' = "set_defaults"
        /\ Result([keyvalues |-> keyvalues, eventhook |-> eventhook],
                  set_defaults(Machine, keyvalues, eventhook), None)

\* handler = QSpinBox(); handler.setValue(v); config.add_handler(key, handler,
\* default=default): the host makes a widget, gives it a value and hands it over
AddHandler ==
    \E key \in Keys, handler \in Widgets, v \in WidgetVals, default \in Vals \cup {None} :
        /\ handler \notin DOMAIN widgetValue
        /\ op' = "add_handler"
        /\ Result([key |-> key, handler |-> handler, value |-> v, default |-> default],
                  add_handler([Machine EXCEPT !.widgetValue = DictSet(@, handler, v)],
                              key, handler, default),
                  None)

\* the user changes the value a widget shows
WidgetEdit ==
    \E w \in DOMAIN widgetValue, v \in WidgetVals :
        /\ v # widgetValue[w]
        /\ op' = "edit"
        /\ Result([widget |-> w, value |-> v], setValue(Machine, w, v), None)

\* config.add_handler(key, handler) by a host with two spin boxes: handler is
\* a new spin box showing v, or one that exists and is connected to nothing
AttachHandler ==
    \E key \in Keys, handler \in SpinBoxes, v \in WidgetVals :
        /\ handler \notin DOMAIN connections
        /\ handler \in DOMAIN widgetValue => v = widgetValue[handler]
        /\ op' = "add_handler"
        /\ Result([key |-> key, handler |-> handler, value |-> v, default |-> None],
                  add_handler([Machine EXCEPT !.widgetValue = DictSet(@, handler, v)],
                              key, handler, None),
                  None)

\* config.remove_handler(key)
RemoveHandler ==
    \E key \in Keys :
        /\ op' = "remove_handler"
        /\ Result([key |-> key], remove_handler(Machine, key), None)

\* config.reset()
Reset ==
    /\ op' = "reset"
    /\ Result(<<>>, reset(Machine), None)

\* config.add_hooks(key, hooks)
AddHooks ==
    \E key \in WidgetTypes :
        /\ op' = "add_hooks"
        /\ args' = [key |-> key]
        /\ hooks' = add_hooks(hooks, key)
        /\ ret' = None
        /\ log' = <<>>
        /\ UNCHANGED <<config, defaults, eventhooks, handlers, connections,
                       widgetValue, file, app, settings, dialog, threads>>

\* config._get_hook(handler)
GetHook ==
    \E handler \in WidgetTypes :
        /\ op' = "_get_hook"
        /\ Result([handler |-> handler], Machine, _get_hook(hooks, handler))

\* config.save()
Save ==
    /\ op' = "save"
    /\ file' = save(Machine)
    /\ args' = <<>>
    /\ ret' = None
    /\ log' = <<>>
    /\ UNCHANGED <<config, defaults, eventhooks, handlers, connections,
                   widgetValue, hooks, app, settings, dialog, threads>>

\* the items of the file, with the values json.load gives them, in an order
FileItems ==
    {kv \in KeyValues :
        /\ {kv[i][1] : i \in DOMAIN kv} = DOMAIN file.items
        /\ \A i \in DOMAIN kv : kv[i][2] = json_load(file.items[kv[i][1]])}

\* the host makes a new manager with the defaults of this one and the file
\* that was saved: ConfigManager(defaults, filename)
Construct ==
    /\ file.exists
    /\ \E keyvalues \in FileItems :
        /\ op' = "ConfigManager"
        /\ Result([defaults |-> defaults, file |-> file.items],
                  ConfigManager(Machine, defaults, keyvalues), None)

\* a manager whose config holds values of the types the tables convert
InitXML ==
    /\ \E a \in XMLValues :
           \/ config = ("a" :> a)
           \/ \E b \in Atoms : config = ("a" :> a) @@ ("b" :> b)
    /\ defaults = <<>>
    /\ eventhooks = <<>>
    /\ handlers = <<>>
    /\ connections = <<>>
    /\ widgetValue = <<>>
    /\ hooks = HOOKS
    /\ file = [exists |-> FALSE, items |-> <<>>]
    /\ app = [applicationName |-> "", organizationName |-> ""]
    /\ settings = [constructed |-> FALSE, warn_no_app_name |-> TRUE]
    /\ dialog = NoDialog
    /\ threads = NoThreads
    /\ op = "init"
    /\ args = <<>>
    /\ ret = None
    /\ log = <<>>

\* the keys of the dict d in an order
ItemOrders(d) ==
    {items \in [1 .. Cardinality(DOMAIN d) -> DOMAIN d] :
        \A i, j \in DOMAIN items : items[i] = items[j] => i = j}

\* config.getXMLConfig(root): ret is the Config element added to root
GetXMLConfig ==
    \E items \in ItemOrders(config) :
        /\ op' = "getXMLConfig"
        /\ Result(<<>>, Machine, getXMLConfig(Machine, items))

\* ConfigManager().setXMLConfig(root), with the tree that was exported
SetXMLConfig ==
    /\ op = "getXMLConfig"
    /\ op' = "setXMLConfig"
    /\ Result([root |-> ret], setXMLConfig(reset(Machine), ret), None)

\* app.setApplicationName(name)
SetApplicationName ==
    \E name \in AppNames :
        /\ op' = "setApplicationName"
        /\ app' = [app EXCEPT !.applicationName = name]
        /\ args' = [name |-> name]
        /\ ret' = None
        /\ log' = <<>>
        /\ UNCHANGED <<config, defaults, eventhooks, handlers, connections,
                       widgetValue, hooks, file, settings, dialog, threads>>

\* app.setOrganizationName(name)
SetOrganizationName ==
    \E name \in AppNames :
        /\ op' = "setOrganizationName"
        /\ app' = [app EXCEPT !.organizationName = name]
        /\ args' = [name |-> name]
        /\ ret' = None
        /\ log' = <<>>
        /\ UNCHANGED <<config, defaults, eventhooks, handlers, connections,
                       widgetValue, hooks, file, settings, dialog, threads>>

\* QSettingsManager(warn_no_app_name=...): the flag is stored and
\* ConfigManagerBase.__init__ calls reset, once
ConstructSettings ==
    \E warn_no_app_name \in BOOLEAN :
        /\ op' = "QSettingsManager"
        /\ settings' = [constructed |-> TRUE, warn_no_app_name |-> warn_no_app_name]
        /\ args' = [warn_no_app_name |-> warn_no_app_name]
        /\ ret' = None
        /\ log' = QSettingsManager_reset(warn_no_app_name, app)
        /\ UNCHANGED <<config, defaults, eventhooks, handlers, connections,
                       widgetValue, hooks, file, app, dialog, threads>>

\* reset() of the settings manager
ResetSettings ==
    /\ settings.constructed
    /\ op' = "QSettingsManager.reset"
    /\ args' = <<>>
    /\ ret' = None
    /\ log' = QSettingsManager_reset(settings.warn_no_app_name, app)
    /\ UNCHANGED <<config, defaults, eventhooks, handlers, connections,
                   widgetValue, hooks, file, app, settings, dialog, threads>>

\* a list of tuples to be used as mapper
InitMapper ==
    /\ config = <<>>
    /\ defaults = <<>>
    /\ eventhooks = <<>>
    /\ handlers = <<>>
    /\ connections = <<>>
    /\ widgetValue = <<>>
    /\ hooks = HOOKS
    /\ file = [exists |-> FALSE, items |-> <<>>]
    /\ app = [applicationName |-> "", organizationName |-> ""]
    /\ settings = [constructed |-> FALSE, warn_no_app_name |-> TRUE]
    /\ dialog = NoDialog
    /\ threads = NoThreads
    /\ op = "init"
    /\ \E mlist \in MapLists : args = [mlist |-> mlist]
    /\ ret = None
    /\ log = <<>>

\* the keys of the dict d in an order, as ItemOrders below
KeyOrders(d) ==
    {keys \in [1 .. Cardinality(DOMAIN d) -> DOMAIN d] :
        \A i, j \in DOMAIN keys : keys[i] = keys[j] => i = j}

\* build_dict_mapper(dict(mlist)), and its two functions called with x
BuildDictMapper ==
    \E x \in MapInputs, keys \in KeyOrders(dict(args.mlist)) :
        /\ op' = "build_dict_mapper"
        /\ LET mapper == build_dict_mapper(dict(args.mlist), keys)
           IN  Result([mlist |-> args.mlist, x |-> x], Machine,
                      [forward |-> mapper.forward[x], reverse |-> mapper.reverse[x]])

\* build_tuple_mapper(mlist), and its two functions called with x
BuildTupleMapper ==
    \E x \in MapInputs :
        /\ op' = "build_tuple_mapper"
        /\ LET mapper == build_tuple_mapper(args.mlist)
           IN  Result([mlist |-> args.mlist, x |-> x], Machine,
                      [forward |-> mapper.forward[x], reverse |-> mapper.reverse[x]])

\* a manager with defaults and metadata, and the number of columns asked for
InitLayout ==
    /\ config = <<>>
    /\ defaults = <<>>
    /\ eventhooks = <<>>
    /\ handlers = <<>>
    /\ connections = <<>>
    /\ widgetValue = <<>>
    /\ hooks = HOOKS
    /\ file = [exists |-> FALSE, items |-> <<>>]
    /\ app = [applicationName |-> "", organizationName |-> ""]
    /\ settings = [constructed |-> FALSE, warn_no_app_name |-> TRUE]
    /\ dialog = NoDialog
    /\ threads = NoThreads
    /\ op = "init"
    /\ \E items \in LayoutItems, cols \in 1 .. MaxCols :
           args = [config |-> items, cols |-> cols]
    /\ ret = None
    /\ log = <<>>

\* build_config_layout(config, cols)
BuildConfigLayout ==
    /\ op = "init"
    /\ op' = "build_config_layout"
    /\ Result(args, Machine, build_config_layout(args.config, args.cols))

\* ConfigManager(defaults): a manager made with defaults for the keys
InitDialog ==
    /\ config = <<>>
    /\ \E K \in SUBSET Keys : defaults \in [K -> Vals]
    /\ eventhooks = <<>>
    /\ handlers = <<>>
    /\ connections = <<>>
    /\ widgetValue = <<>>
    /\ hooks = HOOKS
    /\ file = [exists |-> FALSE, items |-> <<>>]
    /\ app = [applicationName |-> "", organizationName |-> ""]
    /\ settings = [constructed |-> FALSE, warn_no_app_name |-> TRUE]
    /\ dialog = NoDialog
    /\ threads = NoThreads
    /\ op = "init"
    /\ args = <<>>
    /\ ret = None
    /\ log = <<>>

\* a step of the dialog: its manager and widgets become d, the manager it was
\* built from is left alone
DialogResult(a, d) ==
    /\ dialog' = d
    /\ args' = a
    /\ ret' = None
    /\ log' = d.log
    /\ UNCHANGED <<config, defaults, eventhooks, handlers, connections,
                   widgetValue, hooks, file, app, settings, threads>>

\* ConfigDialog(config)
OpenDialog ==
    \E keys \in ItemOrders(defaults) :
        /\ op' = "ConfigDialog"
        /\ DialogResult([keys |-> keys], ConfigDialog(Machine, keys))

\* 'Reset to Defaults' answered with OK or with Cancel
ConfirmReset ==
    \E keys \in ItemOrders(dialog.defaults), ok \in BOOLEAN :
        /\ dialog.open
        /\ op' = "show_confirm_reset_dialog"
        /\ DialogResult([keys |-> keys, ok |-> ok],
                        show_confirm_reset_dialog([dialog EXCEPT !.log = <<>>],
                                                  keys, ok))

\* the user changes the value a spin box of the dialog shows
DialogEdit ==
    \E w \in DOMAIN dialog.widgetValue, v \in WidgetVals :
        /\ v # dialog.widgetValue[w]
        /\ op' = "dialog_edit"
        /\ DialogResult([widget |-> w, value |-> v],
                        setValue([dialog EXCEPT !.log = <<>>], w, v))

\* the store read and written key by key, with defaults and handlers
Next ==
    \/ Get
    \/ Set
    \/ SetDefault
    \/ AddHandler
    \/ WidgetEdit

Spec == Init /\ [][Next]_vars

\* the defaults registered one by one and in batches
NextDefaults ==
    \/ SetDefault
    \/ SetDefaults
    \/ AddHandler
    \/ WidgetEdit

SpecDefaults == Init /\ [][NextDefaults]_vars

\* the store written in batches
NextMany ==
    \/ SetMany
    \/ Replace
    \/ SetDefault
    \/ AddHandler
    \/ WidgetEdit

SpecMany == Init /\ [][NextMany]_vars

\* hooks registered and looked up
NextHooks ==
    \/ AddHooks
    \/ GetHook

SpecHooks == Init /\ [][NextHooks]_vars

\* values and defaults set, saved to the file and loaded by a new manager
NextJson ==
    \/ Set
    \/ SetDefault
    \/ Save
    \/ Construct

SpecJson == Init /\ [][NextJson]_vars

\* the config exported to XML and imported by an empty manager
NextXML ==
    \/ GetXMLConfig
    \/ SetXMLConfig

SpecXML == InitXML /\ [][NextXML]_vars

\* the application named and settings managers made and reset
NextSettings ==
    \/ SetApplicationName
    \/ SetOrganizationName
    \/ ConstructSettings
    \/ ResetSettings

SpecSettings == Init /\ [][NextSettings]_vars

\* mappers built from a list of tuples and from its dict, and called
NextMapper ==
    \/ BuildDictMapper
    \/ BuildTupleMapper

SpecMapper == InitMapper /\ [][NextMapper]_vars

\* a layout built for a manager
NextLayout == BuildConfigLayout

SpecLayout == InitLayout /\ [][NextLayout]_vars

\* values set in a manager made with defaults, and a dialog opened on it
NextDialog ==
    \/ Set
    \/ OpenDialog
    \/ ConfirmReset
    \/ DialogEdit

SpecDialog == InitDialog /\ [][NextDialog]_vars

\* ---- set, called by threads --------------------------------------------------
\* _get and _set hold self.mutex for the whole of their body (QMutexLocker),
\* so each is one step; the rest of set runs outside the lock and the steps of
\* the threads interleave. The keys set by threads have no handler.

\* the test of set for a value already stored, taking any stored value for it
not_updating_or(old, value) == old # None \/ old = value

\* the test of set for a value already stored
not_updating(old, value) == old # None /\ old = value

\* what a step of a thread leaves of the rest of the state
ThreadStep(t, th) ==
    /\ threads' = [threads EXCEPT ![t] = th]
    /\ op' = "thread"
    /\ args' = [thread |-> t]
    /\ ret' = th.ret
    /\ log' = th.log
    /\ UNCHANGED <<defaults, eventhooks, handlers, connections, widgetValue,
                   hooks, file, app, settings, dialog>>

\* the main thread sets values before the threads start
SetBeforeThreads ==
    /\ threads = NoThreads
    /\ Set

\* a thread calls config.set(key, value)
ThreadCall ==
    \E t \in Threads, key \in Keys, value \in Vals :
        /\ threads[t].pc = "idle"
        /\ key \notin DOMAIN handlers
        /\ ThreadStep(t, [NotCalled EXCEPT !.pc = "get", !.key = key,
                                           !.value = value,
                                           !.stored = _get(Machine, key)])
        /\ UNCHANGED config

\* old = self._get(key), and the early return on a value already stored
ThreadGet ==
    \E t \in Threads :
        /\ threads[t].pc = "get"
        /\ LET th == threads[t]
               old == _get(Machine, th.key)
           IN  ThreadStep(t, [th EXCEPT !.old = old,
                                        !.pc = IF not_updating(old, th.value)
                                               THEN "done" ELSE "set",
                                        !.ret = FALSE])
        /\ UNCHANGED config

\* self._set(key, value)
ThreadSet ==
    \E t \in Threads :
        /\ threads[t].pc = "set"
        /\ LET th == threads[t]
               m == _set([Machine EXCEPT !.log = th.log], th.key, th.value)
           IN  /\ config' = m.config
               /\ ThreadStep(t, [th EXCEPT !.log = m.log, !.pc = "emit"])

\* self.updated.emit(...) and return True
ThreadEmit ==
    \E t \in Threads :
        /\ threads[t].pc = "emit"
        /\ LET th == threads[t]
               m == emit([Machine EXCEPT !.log = th.log],
                         IF th.key \in DOMAIN eventhooks
                         THEN eventhooks[th.key]
                         ELSE RECALCULATE_ALL)
           IN  ThreadStep(t, [th EXCEPT !.log = m.log, !.pc = "done",
                                        !.ret = TRUE])
        /\ UNCHANGED config

\* handlers attached, removed and reset, with values set and widgets edited
NextHandlers ==
    \/ Set
    \/ AttachHandler
    \/ RemoveHandler
    \/ Reset
    \/ WidgetEdit

SpecHandlers == Init /\ [][NextHandlers]_vars

\* two threads, each calling set once, after the main thread has set values
NextThreads ==
    \/ SetBeforeThreads
    \/ ThreadCall
    \/ ThreadGet
    \/ ThreadSet
    \/ ThreadEmit

SpecThreads == Init /\ [][NextThreads]_vars

\* ---- what the claims speak of -----------------------------------------------------
\* the manager after the step
After == [config |-> config', defaults |-> defaults', eventhooks |-> eventhooks',
          handlers |-> handlers', connections |-> connections',
          widgetValue |-> widgetValue', log |-> log']

\* the event hook of key, RECALCULATE_ALL when none is registered
HookOf(eh, key) == IF key \in DOMAIN eh THEN eh[key] ELSE RECALCULATE_ALL

\* the last operation is one of the store's writes, or a widget edit
StoreOps == {"set", "set_many", "replace", "set_default", "set_defaults", "edit"}

\* C1: for every key that has a handler, after a store operation or a widget
\* edit the value read from the widget equals get(key).
C1_WidgetInSync ==
    op \in StoreOps =>
        \A key \in DOMAIN handlers : widgetValue[handlers[key]] = get(Machine, key)

\* C2: get(key) returns the stored value when one is stored and is not None,
\* otherwise the default registered for key, and None when there is neither.
C2_GetFallsBack ==
    op = "get" =>
        ret = IF args.key \in DOMAIN config /\ config[args.key] # None
              THEN config[args.key]
              ELSE IF args.key \in DOMAIN defaults
                   THEN defaults[args.key]
                   ELSE None

\* a get that found None stored and fell back to the default
C2_Witness ==
    /\ op = "get"
    /\ args.key \in DOMAIN config
    /\ config[args.key] = None
    /\ args.key \in DOMAIN defaults
    /\ ret = defaults[args.key]

\* C3: a widget edit never calls a widget setter; a set calls the setter at
\* most once, and only when the widget's value differs from the one just
\* stored; the chain set -> setter -> callback -> set ends there: a set stores
\* at most twice, an edit at most once.
C3_PropagationEnds ==
    [][/\ op' = "edit" => Setters(log') = <<>> /\ Len(Stores(log')) <= 1
       /\ op' = "set" =>
              /\ Len(Setters(log')) <= 1
              /\ Len(Stores(log')) <= 2
              /\ Setters(log') # <<>> =>
                     /\ args'.key \in DOMAIN handlers
                     /\ widgetValue[handlers[args'.key]] # args'.value
                     /\ Setters(log')[1] = Ev("setter", handlers[args'.key], args'.value)]_vars

\* a set whose setter changed the widget to another value than the one set, so
\* that the widget's callback stored again, and nothing more followed
C3_Witness ==
    /\ op = "set"
    /\ Len(Setters(log)) = 1
    /\ Len(Stores(log)) = 2
    /\ widgetValue[handlers[args.key]] # args.value

\* C4: every set or set_many with trigger_update, replace, set_default,
\* set_defaults and widget edit that changes what get returns for some key
\* emits updated at least once.
C4_ChangeIsNotified ==
    [][(/\ op' \in StoreOps
        /\ op' \in {"set", "set_many"} => args'.trigger_update
        /\ \E key \in Keys : get(After, key) # get(Machine, key))
       => Updated(log') # <<>>]_vars

\* C5: a set with trigger_update that changes the stored value emits updated
\* exactly once, carrying the key's event hook, or RECALCULATE_ALL when the
\* key has none.
C5_SetEmitsOnce ==
    [][(/\ op' = "set"
        /\ args'.trigger_update
        /\ _get(After, args'.key) # _get(Machine, args'.key))
       => Updated(log') = <<Ev("updated", "", HookOf(eventhooks, args'.key))>>]_vars

LastStore(l) ==
    IF Stores(l) = <<>>
    THEN 0
    ELSE CHOOSE i \in DOMAIN l :
             l[i].e = "store" /\ \A j \in DOMAIN l : l[j].e = "store" => j <= i

\* C7: a set_many with trigger_update emits no updated before the last value
\* is stored, then exactly one updated(RECALCULATE_ALL) if a value changed and
\* none if none did; it returns True exactly when a value changed.
C7_SetManyEmitsOnceAtEnd ==
    [][(op' = "set_many" /\ args'.trigger_update) =>
           /\ \A i \in DOMAIN log' : log'[i].e = "updated" => i > LastStore(log')
           /\ Updated(log') = IF config' # config
                              THEN <<Ev("updated", "", RECALCULATE_ALL)>>
                              ELSE <<>>
           /\ ret' = (config' # config)]_vars

\* C8: a set_many with trigger_update=False emits no updated at all.
C8_SetManyQuiet ==
    [][(op' = "set_many" /\ ~args'.trigger_update) => Updated(log') = <<>>]_vars

\* the value keyvalues gives key, None when it gives none
Lookup(keyvalues, key) ==
    IF \E i \in DOMAIN keyvalues : keyvalues[i][1] = key
    THEN keyvalues[CHOOSE i \in DOMAIN keyvalues : keyvalues[i][1] = key][2]
    ELSE None

\* C9: after replace(keyvalues), get(k) is keyvalues[k] for every k of
\* keyvalues and the default (or None) for every other key; handlers, defaults
\* and event hooks are as they were.
C9_ReplaceResets ==
    [][op' = "replace" =>
           /\ \A key \in Keys :
                  get(After, key) = IF Lookup(args'.keyvalues, key) # None
                                    THEN Lookup(args'.keyvalues, key)
                                    ELSE _get_default(Machine, key)
           /\ UNCHANGED <<handlers, defaults, eventhooks>>]_vars

\* C10: set_default records the default and the event hook of the key, leaves
\* the config as it was and emits updated once, carrying the event hook;
\* set_defaults does so for every pair, emitting once for the batch.
C10_DefaultsRecorded ==
    [][/\ op' = "set_default" =>
              /\ defaults' = DictSet(defaults, args'.key, args'.value)
              /\ eventhooks' = DictSet(eventhooks, args'.key, args'.eventhook)
              /\ config' = config
              /\ log' = <<Ev("updated", "", args'.eventhook)>>
       /\ op' = "set_defaults" =>
              /\ \A key \in Keys :
                     IF Lookup(args'.keyvalues, key) # None
                     THEN /\ key \in DOMAIN defaults'
                          /\ defaults'[key] = Lookup(args'.keyvalues, key)
                          /\ key \in DOMAIN eventhooks'
                          /\ eventhooks'[key] = args'.eventhook
                     ELSE /\ _get_default(After, key) = _get_default(Machine, key)
                          /\ (key \in DOMAIN defaults') = (key \in DOMAIN defaults)
                          /\ (key \in DOMAIN eventhooks') = (key \in DOMAIN eventhooks)
                          /\ HookOf(eventhooks', key) = HookOf(eventhooks, key)
              /\ config' = config
              /\ log' = <<Ev("updated", "", args'.eventhook)>>]_vars

\* a set_defaults of two pairs with RECALCULATE_VIEW on a store that holds a
\* value, which emitted once
C10_Witness ==
    /\ op = "set_defaults"
    /\ Len(args.keyvalues) = 2
    /\ args.eventhook = RECALCULATE_VIEW
    /\ config # <<>>
    /\ log = <<Ev("updated", "", RECALCULATE_VIEW)>>

\* the value of key that add_handler hands to the widget: the stored one, or
\* the default, which is the one supplied, or the widget's, when the key had none
Shown(key, default, value) ==
    IF _get(Machine, key) # None
    THEN _get(Machine, key)
    ELSE IF key \in DOMAIN defaults
         THEN defaults[key]
         ELSE IF default # None THEN default ELSE value

C12_SecondHandlerSkipped ==
    [][/\ (op' = "add_handler" /\ args'.key \in DOMAIN handlers) =>
              /\ handlers' = handlers
              /\ connections' = connections
              /\ config' = config
              /\ defaults' = defaults
              /\ eventhooks' = eventhooks
              /\ log' = <<>>
       /\ (op' = "edit" /\ args'.widget \notin DOMAIN connections) =>
              /\ config' = config
              /\ log' = <<>>
       /\ \A key \in DOMAIN handlers \cap DOMAIN handlers' :
              handlers'[key] = handlers[key]]_vars

\* the second spin box was offered for a key that has the first as its handler
C12_Witness ==
    /\ op = "add_handler"
    /\ args.key \in DOMAIN handlers
    /\ handlers[args.key] # args.handler
    /\ args.handler \notin DOMAIN connections

\* C14: after reset() the manager is as a new one made with no defaults: no
\* value, default, handler or event hook is left and get returns None for
\* every key.
C14_ResetClears ==
    op = "reset" =>
        /\ config = <<>>
        /\ defaults = <<>>
        /\ handlers = <<>>
        /\ eventhooks = <<>>
        /\ \A key \in Keys : get(Machine, key) = None

\* a reset of a manager to which both spin boxes had been attached
C14_Witness ==
    /\ op = "reset"
    /\ DOMAIN connections = SpinBoxes
    /\ handlers = <<>>

\* the types that have hooks
Registered == {hooks[i] : i \in DOMAIN hooks}

\* C13: _get_hook returns the type of the widget when hooks are registered
\* for it, whatever else is registered; otherwise a registered type of which
\* the widget is an instance; it raises TypeError when there is none.
C13_GetHook ==
    op = "_get_hook" =>
        IF args.handler \in Registered
        THEN ret = args.handler
        ELSE IF \E cls \in Registered : isinstance(args.handler, cls)
             THEN ret \in Registered /\ isinstance(args.handler, ret)
             ELSE ret = "TypeError"

\* the hooks of MyLineEdit found although those of its base QLineEdit come
\* first in the dict
C13_Witness ==
    /\ op = "_get_hook"
    /\ args.handler = "MyLineEdit"
    /\ ret = "MyLineEdit"
    /\ "QLineEdit" \in Registered

\* C15: in every state the public operations reach, every key of config has
\* an entry in defaults.
C15_ConfigKeysHaveDefaults == DOMAIN config \subseteq DOMAIN defaults

\* C16: every value stored with set() before save() is returned by get() for
\* its key in a new ConfigManager made with the same defaults and the file
\* that was saved.
C16_SavedValuesComeBack ==
    [][(op = "save" /\ op' = "ConfigManager") =>
           \A key \in DOMAIN config :
               config[key] # None => get(After, key) = config[key]]_vars

\* C17: importing into an empty manager the tree getXMLConfig produced yields
\* a config equal, key for key and value for value, to the exported one.
C17_XMLRoundTrip ==
    [][op' = "setXMLConfig" => config' = config]_vars

\* the warnings the last operation emitted
Warnings(l) == SelectSeq(l, LAMBDA x : x.e = "warning")

\* C18: constructing a QSettingsManager emits exactly one warning when
\* warn_no_app_name is true and the application's name or its organization's
\* name is empty, and none when the flag is false or both names are set.
C18_WarnNoAppName ==
    op = "QSettingsManager" =>
        Len(Warnings(log)) =
            IF /\ args.warn_no_app_name
               /\ (app.applicationName = "" \/ app.organizationName = "")
            THEN 1
            ELSE 0

\* a settings manager made, with the flag at its default, by an application
\* that has a name and no organization name: one warning
C18_Witness ==
    /\ op = "QSettingsManager"
    /\ args.warn_no_app_name
    /\ app.applicationName # ""
    /\ app.organizationName = ""
    /\ Len(Warnings(log)) = 1

\* the visible keys of the manager the layout was built for, and the keys put
\* in a row of the column f
Visible == get_visible_keys(args.config)
Rows(f) == {ret[f][r] : r \in DOMAIN ret[f]}

\* C19 as stated: the numbers of rows of any two columns differ by at most
\* one, and every visible key is in exactly one row.
C19_ColumnsBalanced ==
    op = "build_config_layout" =>
        /\ \A f, g \in 1 .. args.cols : Len(ret[f]) - Len(ret[g]) <= 1
        /\ \A i \in DOMAIN Visible :
               Cardinality({<<f, r>> \in (1 .. args.cols) \X (1 .. MaxItems + 1) :
                                r \in DOMAIN ret[f] /\ ret[f][r] = Visible[i]}) = 1

\* the visible keys assigned to the column f
Assigned(f) ==
    {Visible[i + 1] : i \in {i \in 0 .. Len(Visible) - 1 :
                                f_index(i, Len(Visible), args.cols) = f - 1}}

\* C19 as amended: the numbers of visible keys assigned to any two columns
\* differ by at most one and every visible key is assigned to one column; the
\* rows of a column are, in order and once each, the keys assigned to it that
\* have a handler or get one from add_handler(key), the others being skipped.
C19_AssignmentBalanced ==
    op = "build_config_layout" =>
        /\ \A f, g \in 1 .. args.cols :
               Cardinality(Assigned(f)) - Cardinality(Assigned(g)) <= 1
        /\ \A i \in DOMAIN Visible :
               Cardinality({f \in 1 .. args.cols : Visible[i] \in Assigned(f)}) = 1
        /\ \A f \in 1 .. args.cols :
               /\ Rows(f) = {key \in Assigned(f) :
                                args.config[key] \in {"handler", "int"}}
               /\ \A r, q \in DOMAIN ret[f] : r < q => ret[f][r] < ret[f][q]

\* a layout of three columns for four visible keys, two of them of a type
\* without a default handler: the first column has no row, the last has one
C19_Witness ==
    /\ op = "build_config_layout"
    /\ args.cols = 3
    /\ Len(Visible) = 4
    /\ Len(ret[1]) = 0
    /\ Len(ret[2]) = 1
    /\ Len(ret[3]) = 1

\* C20: 'Reset to Defaults' confirmed with OK makes get(key) of the dialog's
\* manager equal to its default for every key of its defaults, and the
\* widgets show those values; with Cancel the dialog's config is unchanged;
\* either way the manager the dialog was built from is not modified.
C20_ResetToDefaults ==
    [][op' = "show_confirm_reset_dialog" =>
           /\ args'.ok =>
                  \A key \in DOMAIN dialog'.defaults :
                      /\ get(dialog', key) = dialog'.defaults[key]
                      /\ getter(dialog', dialog'.handlers[key]) = dialog'.defaults[key]
           /\ ~args'.ok => dialog'.config = dialog.config
           /\ UNCHANGED <<config, defaults, eventhooks, handlers>>]_vars

\* C21: the functions build_tuple_mapper returns are those build_dict_mapper
\* returns for the dict of the pairs: the forward one maps every display
\* value of the list to its stored value, the reverse one every stored value
\* to its display value, and both return a value outside the mapping unchanged.
C21_TupleMapperAsDictMapper ==
    op = "build_tuple_mapper" =>
        LET mdict == dict(args.mlist)
        IN  /\ \A keys \in KeyOrders(mdict) :
                   /\ ret.forward = build_dict_mapper(mdict, keys).forward[args.x]
                   /\ ret.reverse = build_dict_mapper(mdict, keys).reverse[args.x]
            /\ args.x \in DOMAIN mdict => ret.forward = mdict[args.x]
            /\ args.x \notin DOMAIN mdict => ret.forward = args.x

\* C22: after reset() an edit of a widget that was registered as a handler
\* before the reset leaves the config empty and emits no updated signal.
C22_ResetDetachesWidgets ==
    [][(op = "reset" /\ op' = "edit") =>
           /\ config' = <<>>
           /\ Updated(log') = <<>>]_vars

\* both threads have called set with the same key and the same value, each
\* while the store held another value for the key, and both calls are over
TwoCalls ==
    /\ \A t \in Threads :
           /\ threads[t].pc = "done"
           /\ threads[t].stored # threads[t].value
    /\ threads["t1"].key = threads["t2"].key
    /\ threads["t1"].value = threads["t2"].value

\* the calls that returned True, and the emissions of updated by the calls
ReturnedTrue == {t \in Threads : threads[t].pc = "done" /\ threads[t].ret}
Emitted == Len(Updated(threads["t1"].log)) + Len(Updated(threads["t2"].log))

\* C23: the mutex makes set safe for concurrent callers: of two calls
\* set(key, v) made at the same time with a value that differs from the
\* stored one, exactly one returns True and updated is emitted exactly once,
\* and no call writes the store (to return True) without changing it.
C23_SetThreadSafe ==
    [][/\ TwoCalls' => /\ Cardinality(ReturnedTrue') = 1
                       /\ Emitted' = 1
       /\ \A t \in Threads :
              (threads[t].pc = "set" /\ threads'[t].pc = "emit")
                  => config' # config]_vars

\* C23, amended: the mutex serialises each read and each write of the store,
\* not set as a whole: after the two calls the store holds v, at least one
\* call returned True, updated was emitted once for each call that returned
\* True, and a call that returned False had read v.
C23_StoreSerialisedOnly ==
    TwoCalls =>
        /\ _get(Machine, threads["t1"].key) = threads["t1"].value
        /\ Cardinality(ReturnedTrue) >= 1
        /\ Emitted = Cardinality(ReturnedTrue)
        /\ \A t \in Threads :
               /\ Len(Updated(threads[t].log)) = (IF threads[t].ret THEN 1 ELSE 0)
               /\ ~threads[t].ret => threads[t].old = threads[t].value

\* both calls read the old value before either wrote: both returned True
C23_Witness ==
    /\ TwoCalls
    /\ ReturnedTrue = Threads
    /\ Emitted = 2
====
